---- MODULE Spec2Model ----
(***************************************************************************)
(* Model of the Athenz Terraform provider's resource reconcilers:          *)
(* athenz/resource_role.go and athenz/resource_top_level_domain.go.        *)
(* Every remote call of a handler is one step; the handler's position is   *)
(* pc, and the calls it has issued so far are recorded in calls.           *)
(***************************************************************************)
EXTENDS Integers, Sequences, FiniteSets, TLC

\* ------------------------------------------------------------------ bounds
NumMembers == 2

\* ------------------------------------------------------- strings as chars
ROLE_SEPARATOR == <<":", "r", "o", "l", "e", ".">>
Sports == <<"s", "p", "o", "r", "t", "s">>
Readers == <<"r", "e", "a", "d", "e", "r", "s">>
Admin == <<"a", "d", "m", "i", "n">>
NoString == <<>>

\* (domain, name) pairs a configuration can carry (the schema validates nothing)
XRoleY == <<"x">> \o ROLE_SEPARATOR \o <<"y">>
RoleAdmin == <<"r", "o", "l", "e", ".">> \o Admin
Names == {<<Sports, Readers>>, <<Sports, RoleAdmin>>, <<Sports, XRoleY>>}
\* identifiers `terraform import` can hand to the passthrough importer
TldNames == {Sports}
ImportIds ==
    {Sports \o ROLE_SEPARATOR \o Readers,
     Sports,
     Sports \o ROLE_SEPARATOR \o Readers \o ROLE_SEPARATOR \o <<"x">>}

AllMembers == <<"user.alice", "user.bob", "user.carol", "user.dave">>
Members == {AllMembers[i] : i \in 1..NumMembers}
TagKeys == {"env"}
TagVals == {"prod"}
AUDIT_REF == "done by terraform"
AuditRefs == {AUDIT_REF, "ticket-1"}

\* strings.Index: 0-based position of the first occurrence of sep, or -1
Index(s, sep) ==
    LET hits == {i \in 1..(Len(s) - Len(sep) + 1) :
                    SubSeq(s, i, i + Len(sep) - 1) = sep}
    IN IF hits = {} THEN -1
       ELSE (CHOOSE i \in hits : \A j \in hits : i <= j) - 1

\* strings.Split for a non-empty separator
RECURSIVE Split(_, _)
Split(s, sep) ==
    LET m == Index(s, sep)
    IN IF m < 0 THEN <<s>>
       ELSE <<SubSeq(s, 1, m)>> \o Split(SubSeq(s, m + Len(sep) + 1, Len(s)), sep)

\* mutant: the identifier is joined with ":role" (the dot is lost)
FullResourceName_NoDot(dn, rn) == dn \o <<":", "r", "o", "l", "e">> \o rn

\* fullResourceName := dn + ROLE_SEPARATOR + rn
FullResourceName(dn, rn) == dn \o ROLE_SEPARATOR \o rn

\* ------------------------------------------------------------ state mapper
LocalTagMaps == UNION {[K -> TagVals] : K \in SUBSET TagKeys}
NoTags == [k \in {} |-> "prod"]
NoRemoteTags == [k \in {} |-> <<"prod">>]

expandRoleMembers(list) == {[MemberName |-> m] : m \in list}
flattenRoleMembers(roleMembers) == {rm.MemberName : rm \in roleMembers}
expandRoleTags(t) == [k \in DOMAIN t |-> <<t[k]>>]
flattenTag(rt) == [k \in DOMAIN rt |-> rt[k][1]]

\* ------------------------------------------------------------ remote side
\* *zms.Role; nil = TRUE is the nil pointer (and an absent remote role)
NilRole == [nil |-> TRUE, RoleMembers |-> {}, Tags |-> NoRemoteTags]
MkRole(ms, rt) == [nil |-> FALSE, RoleMembers |-> ms, Tags |-> rt]
RemoteRoles ==
    {MkRole(expandRoleMembers(ms), expandRoleTags(t)) :
        ms \in SUBSET Members, t \in LocalTagMaps}
\* the role whose remote content the model tracks; every other (domain, role)
\* pair answers with any content another party may have given it
TrackedKey == <<Sports, Readers>>
OtherRoles == {MkRole(expandRoleMembers(Members), NoRemoteTags)}

\* error values
Nil == [type |-> "nil", code |-> 0]
ResourceError(c) == [type |-> "rdl.ResourceError", code |-> c]
Transport == [type |-> "transport", code |-> 0]
Errorf(msg, e) == [type |-> msg, code |-> e.code]
Panic == [type |-> "panic", code |-> 0]
Running == [type |-> "running", code |-> 0]
\* the structured codes other than 404 a call is made to fail with
OtherCodes == {403}
Failures == {ResourceError(c) : c \in OtherCodes} \cup {Transport}

\* what zmsClient.GetRole can return when the remote role is `view`
GetRoleResults(view) ==
    (IF view.nil THEN {[role |-> NilRole, err |-> ResourceError(404)]}
                 ELSE {[role |-> view, err |-> Nil]})
    \cup {[role |-> NilRole, err |-> e] : e \in Failures}
    \cup {[role |-> NilRole, err |-> Nil]}
\* *zms.Domain / *zms.TopLevelDomain as the client returns it; YpmId is a
\* pointer and may be nil
NilDomain == [nil |-> TRUE, hasYpmId |-> FALSE, YpmId |-> 0]
MkDomain(has, y) == [nil |-> FALSE, hasYpmId |-> has, YpmId |-> y]
\* ypm_id values; all lie within int32, where int32(x) leaves x as it is
YpmIds == {101}
Domains == {MkDomain(TRUE, y) : y \in YpmIds} \cup {MkDomain(FALSE, 0)}

\* what zmsClient.GetDomain can return when the remote domain is `view`
GetDomainResults(view) ==
    (IF view.nil THEN {[domain |-> NilDomain, err |-> ResourceError(404)]}
                 ELSE {[domain |-> view, err |-> Nil]})
    \cup {[domain |-> NilDomain, err |-> e] : e \in Failures}
    \cup {[domain |-> NilDomain, err |-> Nil]}
\* what zmsClient.PostTopLevelDomain can return for the given draft
PostTopLevelDomainResults(detail) ==
    {[domain |-> MkDomain(TRUE, detail.YpmId), err |-> Nil],
     [domain |-> NilDomain, err |-> Nil]}
    \cup {[domain |-> NilDomain, err |-> e] : e \in Failures}
NoDetail == [Name |-> NoString, AdminUsers |-> {}, YpmId |-> 0]
convertToZmsResourceNameList(list) == {[ResourceName |-> u] : u \in list}

\* what a mutating call can return
WriteResults == {Nil, ResourceError(404)} \cup Failures

VARIABLES
    remote,   \* the remote role at TrackedKey (NilRole when absent)
    kind,     \* resource type of the instance: "none", "role" or "domain"
    id,       \* d.Id()
    state,    \* role attributes persisted by the framework
    d,        \* role attributes of the ResourceData inside a callback
    td,       \* top-level-domain attributes of the ResourceData inside a callback
    op,       \* the callback the framework invoked
    pc,       \* position inside the callback
    calls,    \* remote calls issued by the current callback, in order
    ret,      \* error value the callback returned
    tmp,      \* locals of the callback
    prev      \* the preceding callback was a Role Update that returned nil and
              \* whose desired members and tags are the persisted ones

vars == <<remote, kind, id, state, d, td, op, pc, calls, ret, tmp, prev>>

EmptyState ==
    [domain |-> NoString, name |-> NoString, members |-> {},
     tags |-> NoTags, audit_ref |-> AUDIT_REF]
EmptyTld ==
    [name |-> NoString, audit_ref |-> AUDIT_REF, admin_users |-> {}, ypm_id |-> 0]
EmptyTmp ==
    [dn |-> NoString, rn |-> NoString, remove |-> {}, add |-> {},
     role |-> NilRole, domain |-> NilDomain,
     members |-> {}, tags |-> NoTags, second |-> FALSE]

View(dn, rn) ==
    IF <<dn, rn>> = TrackedKey THEN {remote} ELSE {NilRole} \cup OtherRoles
Tracked(dn, rn) == <<dn, rn>> = TrackedKey

\* one remote call: the function that issued it, the client operation, its
\* arguments, the role it sent (PutRole) or received (GetRole), the domain it
\* received (PostTopLevelDomain, GetDomain), the error it returned, and whether
\* the addressed remote entity existed when it was issued
Call(site, name, dn, rn, member, role, audit, e, existed) ==
    [site |-> site, call |-> name, dn |-> dn, rn |-> rn, member |-> member, role |-> role,
     detail |-> NoDetail, domain |-> NilDomain, audit |-> audit, err |-> e,
     existed |-> existed]

Finish(e) == /\ ret' = e
             /\ pc' = "done"

Init ==
    /\ remote \in {NilRole} \cup RemoteRoles
    /\ kind = "none"
    /\ id = NoString
    /\ state = EmptyState
    /\ d = EmptyState
    /\ td = EmptyTld
    /\ op = "none"
    /\ pc = "idle"
    /\ calls = <<>>
    /\ ret = Running
    /\ tmp = EmptyTmp
    /\ prev = FALSE

\* mutant: the members are set whether or not the remote set is empty
ReadSet_Always(dd, role) ==
    LET d1 == [dd EXCEPT !.members = flattenRoleMembers(role.RoleMembers)]
    IN IF Cardinality(DOMAIN role.Tags) > 0
       THEN [d1 EXCEPT !.tags = flattenTag(role.Tags)]
       ELSE d1

\* d.Set("members", ...) and d.Set("tags", ...) of resourceRoleRead
ReadSet(dd, role) ==
    LET d1 == IF Cardinality(role.RoleMembers) > 0
              THEN [dd EXCEPT !.members = flattenRoleMembers(role.RoleMembers)]
              ELSE dd
    IN IF Cardinality(DOMAIN role.Tags) > 0
       THEN [d1 EXCEPT !.tags = flattenTag(role.Tags)]
       ELSE d1

\* mutant: the role is built without the tags
CreateRole_NoTags(dd) ==
    MkRole(IF Cardinality(dd.members) > 0 THEN expandRoleMembers(dd.members) ELSE {},
           NoRemoteTags)

\* the role value resourceRoleCreate builds
CreateRole(dd) ==
    MkRole(IF Cardinality(dd.members) > 0 THEN expandRoleMembers(dd.members) ELSE {},
           IF dd.tags # NoTags THEN expandRoleTags(dd.tags) ELSE NoRemoteTags)

\* mutant: a precheck that finds the role goes on as if it had not
PrecheckBranch_Adopt(role, err) ==
    CASE err.type = "rdl.ResourceError" /\ err.code = 404 -> "put"
      [] err.type = "rdl.ResourceError" /\ err.code # 404 -> "fallthrough"
      [] err.type = "transport" -> "return err"
      [] OTHER -> IF ~role.nil THEN "fallthrough" ELSE "return nil"

\* the type switch on the precheck's error: where resourceRoleCreate goes
PrecheckBranch(role, err) ==
    CASE err.type = "rdl.ResourceError" /\ err.code = 404 -> "put"
      [] err.type = "rdl.ResourceError" /\ err.code # 404 -> "fallthrough"
      [] err.type = "transport" -> "return err"
      [] OTHER -> IF ~role.nil THEN "already exists" ELSE "return nil"

\* resourceRoleCreate up to and including the precheck's type switch
resourceRoleCreate(dn, rn, ms, ts, ar) ==
    /\ pc = "idle"
    /\ id = NoString
    /\ kind' = "role"
    /\ op' = "Create"
    /\ d' = [domain |-> dn, name |-> rn, members |-> ms, tags |-> ts, audit_ref |-> ar]
    /\ tmp' = [EmptyTmp EXCEPT !.dn = dn, !.rn = rn, !.members = ms, !.tags = ts]
    /\ \E view \in View(dn, rn) : \E res \in GetRoleResults(view) :
        LET branch == PrecheckBranch(res.role, res.err) IN
        /\ calls' = <<Call("resourceRoleCreate", "GetRole", dn, rn, "", res.role, "", res.err, ~view.nil)>>
        /\ CASE branch = "put" ->
                    /\ pc' = "create_put"
                    /\ UNCHANGED <<id, ret>>
             [] branch = "fallthrough" ->
                    \* no branch handles the other codes: control leaves the switch
                    /\ id' = FullResourceName(dn, rn)
                    /\ pc' = "read"
                    /\ UNCHANGED ret
             [] branch = "return err" ->
                    /\ Finish(res.err)
                    /\ UNCHANGED id
             [] branch = "already exists" ->
                    /\ Finish(Errorf("already exists", Nil))
                    /\ UNCHANGED id
             [] OTHER ->
                    /\ Finish(Nil)
                    /\ UNCHANGED id
    /\ UNCHANGED <<remote, state, td, prev>>

\* the PutRole of the 404 branch, then d.SetId
CreatePutRole ==
    /\ pc = "create_put"
    /\ \E e \in WriteResults :
        LET role == CreateRole(d) IN
        /\ calls' = Append(calls, Call("resourceRoleCreate", "PutRole", tmp.dn, tmp.rn, "", role, d.audit_ref, e,
                                       Tracked(tmp.dn, tmp.rn) /\ ~remote.nil))
        /\ IF e = Nil
           THEN /\ remote' = IF Tracked(tmp.dn, tmp.rn) THEN role ELSE remote
                /\ id' = FullResourceName(tmp.dn, tmp.rn)
                /\ pc' = "read"
                /\ UNCHANGED ret
           ELSE /\ Finish(e)
                /\ UNCHANGED <<remote, id>>
    /\ UNCHANGED <<kind, state, d, td, op, tmp, prev>>

\* mutant: a 404 is treated like any other structured code
ReadBranch_NoAbsorb(err) ==
    CASE err.type = "rdl.ResourceError" -> "wrap"
      [] err.type = "transport" -> "return err"
      [] OTHER -> "value"

\* the type switch on the fetch's error in both Read callbacks
ReadBranch(err) ==
    CASE err.type = "rdl.ResourceError" /\ err.code = 404 -> "absent"
      [] err.type = "rdl.ResourceError" /\ err.code # 404 -> "wrap"
      [] err.type = "transport" -> "return err"
      [] OTHER -> "value"

\* resourceRoleRead, also the tail of Create and Update
resourceRoleRead ==
    /\ pc = "read"
    /\ LET fullResourceName == Split(id, ROLE_SEPARATOR) IN
       IF Len(fullResourceName) < 2
       THEN /\ Finish(Panic)
            /\ UNCHANGED <<id, d, calls, tmp>>
       ELSE LET dn == fullResourceName[1]
                rn == fullResourceName[2]
                d1 == [d EXCEPT !.domain = dn, !.name = rn]
            IN
            /\ tmp' = [tmp EXCEPT !.dn = dn, !.rn = rn]
            /\ \E view \in View(dn, rn) : \E res \in GetRoleResults(view) :
                LET branch == ReadBranch(res.err) IN
                /\ calls' = Append(calls, Call("resourceRoleRead", "GetRole", dn, rn, "", res.role, "",
                                               res.err, ~view.nil))
                /\ CASE branch = "absent" ->
                            /\ id' = NoString
                            /\ d' = d1
                            /\ Finish(Nil)
                     [] branch = "wrap" ->
                            /\ d' = d1
                            /\ Finish(Errorf("error retrieving Athenz Role", res.err))
                            /\ UNCHANGED id
                     [] branch = "return err" ->
                            /\ d' = d1
                            /\ Finish(res.err)
                            /\ UNCHANGED id
                     [] OTHER ->
                            /\ UNCHANGED id
                            /\ IF res.role.nil
                               THEN /\ d' = d1
                                    /\ Finish(Errorf("error retrieving Athenz Role - cert/key", Nil))
                               ELSE /\ d' = ReadSet(d1, res.role)
                                    /\ Finish(Nil)
    /\ UNCHANGED <<remote, kind, state, td, op, prev>>

\* the framework refreshes the resource it has in state
Refresh ==
    /\ pc = "idle"
    /\ id # NoString
    /\ op' = "Read"
    /\ d' = IF kind = "role" THEN state ELSE d
    /\ calls' = <<>>
    /\ pc' = IF kind = "role" THEN "read" ELSE "tld_read"
    /\ UNCHANGED <<remote, kind, id, state, td, ret, tmp, prev>>

\* schema.ImportStatePassthrough: the given string becomes the id, then Read
Import(k, i) ==
    /\ pc = "idle"
    /\ id = NoString
    /\ kind' = k
    /\ id' = i
    /\ op' = "Import"
    /\ calls' = <<>>
    /\ pc' = IF k = "role" THEN "read" ELSE "tld_read"
    /\ UNCHANGED <<remote, state, d, td, ret, tmp, prev>>

\* d.HasChange(key) once the planned values dd are in the ResourceData
HasChange(dd, key) == state[key] # dd[key]

\* handleChange(d, "members"): d.GetChange as a pair of sets (old, new)
handleChange(dd) == <<state.members, dd.members>>

\* mutants: the whole old set is removed; the whole new set is added; the
\* receiver and the argument of the first Difference are exchanged
RemoveSet_All(os, ns) == os
AddSet_All(os, ns) == ns
RemoveSet_Swapped(os, ns) == ns \ os

\* os.Difference(ns) and ns.Difference(os)
RemoveSet(os, ns) == os \ ns
AddSet(os, ns) == ns \ os

\* mutant: the tag branch is taken whether or not the tags changed
AfterMembers_Always(dd) == "update_tags_get"

\* if d.HasChange("tags"): where resourceRoleUpdate goes after the members
AfterMembers(dd) == IF HasChange(dd, "tags") THEN "update_tags_get" ELSE "read"

\* resourceRoleUpdate up to the call of updateRoleMembers
resourceRoleUpdate(ms, ts, ar) ==
    /\ pc = "idle"
    /\ kind = "role"
    /\ id # NoString
    /\ op' = "Update"
    /\ calls' = <<>>
    /\ d' = [state EXCEPT !.members = ms, !.tags = ts, !.audit_ref = ar]
    /\ LET fullResourceName == Split(id, ROLE_SEPARATOR)
           second == prev /\ ms = state.members /\ ts = state.tags
       IN
       IF Len(fullResourceName) < 2
       THEN /\ Finish(Panic)
            /\ tmp' = [EmptyTmp EXCEPT !.members = ms, !.tags = ts, !.second = second]
       ELSE LET os == handleChange(d')[1]
                ns == handleChange(d')[2]
                remove == IF HasChange(d', "members")
                          THEN expandRoleMembers(RemoveSet(os, ns)) ELSE {}
                add == IF HasChange(d', "members")
                       THEN expandRoleMembers(AddSet(os, ns)) ELSE {}
            IN
            /\ tmp' = [EmptyTmp EXCEPT !.dn = fullResourceName[1], !.rn = fullResourceName[2],
                                       !.remove = remove, !.add = add,
                                       !.members = ms, !.tags = ts, !.second = second]
            /\ pc' = IF remove \cup add # {} THEN "update_members" ELSE AfterMembers(d')
            /\ UNCHANGED ret
    /\ UNCHANGED <<remote, kind, id, state, td, prev>>

\* schema.Set.List() hands the members over in the set's fixed order (by hash
\* code); the order of AllMembers stands for it
Rank(m) == CHOOSE i \in 1..Len(AllMembers) : AllMembers[i] = m
First(list) == CHOOSE m \in list : \A o \in list : Rank(m.MemberName) <= Rank(o.MemberName)

\* updateRoleMembers: one DeleteMembership per member of remove
UpdateRemoveMember ==
    /\ pc = "update_members"
    /\ tmp.remove # {}
    /\ \E e \in WriteResults :
        LET m == First(tmp.remove) IN
        /\ calls' = Append(calls, Call("updateRoleMembers", "DeleteMembership", tmp.dn, tmp.rn, m.MemberName, NilRole,
                                       d.audit_ref, e, Tracked(tmp.dn, tmp.rn) /\ ~remote.nil))
        /\ IF e = Nil
           THEN /\ remote' = IF Tracked(tmp.dn, tmp.rn) /\ ~remote.nil
                             THEN [remote EXCEPT !.RoleMembers = @ \ {m}] ELSE remote
                /\ tmp' = [tmp EXCEPT !.remove = @ \ {m}]
                /\ pc' = IF tmp'.remove \cup tmp'.add # {} THEN "update_members" ELSE AfterMembers(d)
                /\ UNCHANGED ret
           ELSE /\ Finish(Errorf("error updating group membership", e))
                /\ UNCHANGED <<remote, tmp>>
    /\ UNCHANGED <<kind, id, state, d, td, op, prev>>

\* updateRoleMembers: then one PutMembership per member of add
UpdateAddMember ==
    /\ pc = "update_members"
    /\ tmp.remove = {}
    /\ tmp.add # {}
    /\ \E e \in WriteResults :
        LET m == First(tmp.add) IN
        /\ calls' = Append(calls, Call("updateRoleMembers", "PutMembership", tmp.dn, tmp.rn, m.MemberName, NilRole,
                                       d.audit_ref, e, Tracked(tmp.dn, tmp.rn) /\ ~remote.nil))
        /\ IF e = Nil
           THEN /\ remote' = IF Tracked(tmp.dn, tmp.rn) /\ ~remote.nil
                             THEN [remote EXCEPT !.RoleMembers = @ \cup {m}] ELSE remote
                /\ tmp' = [tmp EXCEPT !.add = @ \ {m}]
                /\ pc' = IF tmp'.add # {} THEN "update_members" ELSE AfterMembers(d)
                /\ UNCHANGED ret
           ELSE /\ Finish(Errorf("error updating group membership", e))
                /\ UNCHANGED <<remote, tmp>>
    /\ UNCHANGED <<kind, id, state, d, td, op, prev>>

\* the tag branch: role, err := zmsClient.GetRole(dn, rn)
UpdateTagsGet ==
    /\ pc = "update_tags_get"
    /\ \E view \in View(tmp.dn, tmp.rn) : \E res \in GetRoleResults(view) :
        /\ calls' = Append(calls, Call("resourceRoleUpdate", "GetRole", tmp.dn, tmp.rn, "", res.role, "",
                                       res.err, ~view.nil))
        /\ IF res.err # Nil
           THEN /\ Finish(res.err)
                /\ UNCHANGED tmp
           ELSE IF res.role.nil
           THEN /\ Finish(Panic)
                /\ UNCHANGED tmp
           ELSE /\ tmp' = [tmp EXCEPT !.role = res.role]
                /\ pc' = "update_tags_put"
                /\ UNCHANGED ret
    /\ UNCHANGED <<remote, kind, id, state, d, td, op, prev>>

\* mutant: the desired tags are patched into the fetched tag map
SetTags_Merge(role, tags) ==
    [role EXCEPT !.Tags = [k \in DOMAIN role.Tags \cup DOMAIN tags |->
                              IF k \in DOMAIN tags THEN tags[k] ELSE role.Tags[k]]]

\* mutant: the role written has the desired tags and no members
SetTags_NoMembers(role, tags) == [role EXCEPT !.Tags = tags, !.RoleMembers = {}]

\* role.Tags = tags
SetTags(role, tags) == [role EXCEPT !.Tags = tags]

\* the tag branch: zmsClient.PutRole(dn, rn, auditRef, role)
UpdateTagsPut ==
    /\ pc = "update_tags_put"
    /\ \E e \in WriteResults :
        LET role == SetTags(tmp.role, expandRoleTags(d.tags)) IN
        /\ calls' = Append(calls, Call("resourceRoleUpdate", "PutRole", tmp.dn, tmp.rn, "", role, d.audit_ref, e,
                                       Tracked(tmp.dn, tmp.rn) /\ ~remote.nil))
        /\ IF e = Nil
           THEN /\ remote' = IF Tracked(tmp.dn, tmp.rn) THEN role ELSE remote
                /\ pc' = "read"
                /\ UNCHANGED ret
           ELSE /\ Finish(Errorf("error updating tags", e))
                /\ UNCHANGED remote
    /\ UNCHANGED <<kind, id, state, d, td, op, tmp, prev>>

\* mutant: a delete answered with not-found counts as done
DeleteResult_AbsorbNotFound(err) == IF err = ResourceError(404) THEN Nil ELSE err

\* if err != nil { return err }; return nil  (both Delete callbacks)
DeleteResult(err) == IF err # Nil THEN err ELSE Nil

\* resourceRoleDelete
resourceRoleDelete(ar) ==
    /\ pc = "idle"
    /\ kind = "role"
    /\ id # NoString
    /\ op' = "Delete"
    /\ d' = [state EXCEPT !.audit_ref = ar]
    /\ LET fullResourceName == Split(id, ROLE_SEPARATOR) IN
       IF Len(fullResourceName) < 2
       THEN /\ Finish(Panic)
            /\ calls' = <<>>
            /\ UNCHANGED <<remote, tmp>>
       ELSE LET dn == fullResourceName[1]
                rn == fullResourceName[2]
            IN
            /\ tmp' = [EmptyTmp EXCEPT !.dn = dn, !.rn = rn]
            /\ \E e \in WriteResults :
                /\ calls' = <<Call("resourceRoleDelete", "DeleteRole", dn, rn, "", NilRole, d'.audit_ref, e,
                                   Tracked(dn, rn) /\ ~remote.nil)>>
                /\ remote' = IF e = Nil /\ Tracked(dn, rn) THEN NilRole ELSE remote
                /\ Finish(DeleteResult(e))
    /\ UNCHANGED <<kind, id, state, td, prev>>

\* mutant: a nil result with no failure is taken for a created domain
PostBranch_AcceptNil(domain, err) ==
    IF err # Nil THEN "return err" ELSE "created"

\* the two checks on what PostTopLevelDomain returned
PostBranch(domain, err) ==
    IF err # Nil THEN "return err"
    ELSE IF domain.nil THEN "nil result"
    ELSE "created"

\* resourceTopLevelDomainCreate up to d.SetId
resourceTopLevelDomainCreate(domainName, auditRef, adminUsers, ypm) ==
    /\ pc = "idle"
    /\ id = NoString
    /\ kind' = "domain"
    /\ op' = "Create"
    /\ td' = [name |-> domainName, audit_ref |-> auditRef,
              admin_users |-> adminUsers, ypm_id |-> ypm]
    /\ LET topLevelDomainDetail ==
              [Name |-> domainName,
               AdminUsers |-> convertToZmsResourceNameList(adminUsers),
               YpmId |-> ypm]
       IN \E res \in PostTopLevelDomainResults(topLevelDomainDetail) :
            LET branch == PostBranch(res.domain, res.err) IN
            /\ calls' = <<[Call("resourceTopLevelDomainCreate", "PostTopLevelDomain", domainName, NoString, "", NilRole,
                                auditRef, res.err, FALSE)
                           EXCEPT !.detail = topLevelDomainDetail, !.domain = res.domain]>>
            /\ CASE branch = "return err" ->
                        /\ Finish(res.err)
                        /\ UNCHANGED id
                 [] branch = "nil result" ->
                        /\ Finish(Errorf("error creating Top Level Domain", Nil))
                        /\ UNCHANGED id
                 [] OTHER ->
                        /\ id' = domainName
                        /\ pc' = "tld_read"
                        /\ UNCHANGED ret
    /\ UNCHANGED <<remote, state, d, tmp, prev>>

\* resourceTopLevelDomainRead up to d.Set("name", domainName)
resourceTopLevelDomainRead ==
    /\ pc = "tld_read"
    /\ \E view \in {NilDomain} \cup Domains : \E res \in GetDomainResults(view) :
        LET branch == ReadBranch(res.err) IN
        /\ calls' = Append(calls, [Call("resourceTopLevelDomainRead", "GetDomain", id, NoString, "", NilRole, "",
                                        res.err, ~view.nil)
                                   EXCEPT !.domain = res.domain])
        /\ CASE branch = "absent" ->
                    /\ id' = NoString
                    /\ Finish(Nil)
                    /\ UNCHANGED <<td, tmp>>
             [] branch = "wrap" ->
                    /\ Finish(Errorf("error retrieving Athenz Top level Domain", res.err))
                    /\ UNCHANGED <<id, td, tmp>>
             [] branch = "return err" ->
                    /\ Finish(res.err)
                    /\ UNCHANGED <<id, td, tmp>>
             [] OTHER ->
                    /\ UNCHANGED id
                    /\ IF res.domain.nil
                       THEN /\ Finish(Errorf("error retrieving Athenz Top Level Domain - cert/key", Nil))
                            /\ UNCHANGED <<td, tmp>>
                       ELSE /\ td' = [td EXCEPT !.name = id]
                            /\ tmp' = [tmp EXCEPT !.domain = res.domain]
                            /\ pc' = "tld_read_admin"
                            /\ UNCHANGED ret
    /\ UNCHANGED <<remote, kind, state, d, op, prev>>

\* mutant: the admin users are not taken from the fetched role
AdminUsers_None(adminRole) == {}

\* adminUsers := flattenRoleMembers(adminRole.RoleMembers)
AdminUsers(adminRole) == flattenRoleMembers(adminRole.RoleMembers)

\* resourceTopLevelDomainRead from the fetch of the "admin" role on
TopLevelDomainReadAdmin ==
    /\ pc = "tld_read_admin"
    /\ \E view \in View(id, Admin) : \E res \in GetRoleResults(view) :
        /\ calls' = Append(calls, Call("resourceTopLevelDomainRead", "GetRole", id, Admin, "", res.role, "",
                                       res.err, ~view.nil))
        /\ IF res.err # Nil
           THEN /\ Finish(res.err)
                /\ UNCHANGED td
           ELSE IF res.role.nil
           THEN /\ Finish(Panic)
                /\ UNCHANGED td
           ELSE IF ~tmp.domain.hasYpmId
           THEN /\ td' = [td EXCEPT !.admin_users = AdminUsers(res.role)]
                /\ Finish(Panic)
           ELSE /\ td' = [td EXCEPT !.admin_users = AdminUsers(res.role),
                                    !.ypm_id = tmp.domain.YpmId]
                /\ Finish(Nil)
    /\ UNCHANGED <<remote, kind, id, state, d, op, tmp, prev>>

\* resourceTopLevelDomainDelete
resourceTopLevelDomainDelete(auditRef) ==
    /\ pc = "idle"
    /\ kind = "domain"
    /\ id # NoString
    /\ op' = "Delete"
    /\ td' = [td EXCEPT !.audit_ref = auditRef]
    /\ \E e \in WriteResults :
        /\ calls' = <<Call("resourceTopLevelDomainDelete", "DeleteTopLevelDomain", id, NoString, "", NilRole, auditRef, e, FALSE)>>
        /\ Finish(DeleteResult(e))
    /\ UNCHANGED <<remote, kind, id, state, d, tmp, prev>>

\* audit_ref reaches every callback as an input (its stored value is whatever
\* the configuration last said), so the persisted copy is not tracked
Persist(dd) == [dd EXCEPT !.audit_ref = AUDIT_REF]

\* the callback has returned: the framework persists what the SDK hands back
Return ==
    /\ pc = "done"
    /\ pc' = "idle"
    /\ id' = IF \/ op = "Delete" /\ ret = Nil
                \/ op = "Import" /\ ret # Nil
             THEN NoString ELSE id
    /\ kind' = IF id' = NoString THEN "none" ELSE kind
    /\ state' = IF id' = NoString \/ kind = "domain" THEN EmptyState
                ELSE IF ret = Panic THEN state
                ELSE IF op \in {"Create", "Update"} THEN Persist(d)
                ELSE IF op \in {"Read", "Import"} /\ ret = Nil THEN Persist(d)
                ELSE state
    /\ prev' = /\ op = "Update"
               /\ ret = Nil
               /\ id' # NoString
               /\ state'.members = tmp.members
               /\ state'.tags = tmp.tags
    /\ d' = EmptyState
    /\ td' = EmptyTld
    /\ op' = "none"
    /\ calls' = <<>>
    /\ ret' = Running
    /\ tmp' = EmptyTmp
    /\ UNCHANGED remote

\* another party changes the remote role between two callbacks
OutOfBand(r) ==
    /\ pc = "idle"
    /\ r # remote
    /\ remote' = r
    /\ prev' = FALSE
    /\ UNCHANGED <<kind, id, state, d, td, op, pc, calls, ret, tmp>>

Next ==
    \/ \E n \in Names, ms \in SUBSET Members, ts \in LocalTagMaps, ar \in AuditRefs :
            resourceRoleCreate(n[1], n[2], ms, ts, ar)
    \/ CreatePutRole
    \/ resourceRoleRead
    \/ Refresh
    \/ \E i \in ImportIds : Import("role", i)
    \/ \E i \in TldNames : Import("domain", i)
    \/ \E ms \in SUBSET Members, ts \in LocalTagMaps, ar \in AuditRefs :
            resourceRoleUpdate(ms, ts, ar)
    \/ UpdateRemoveMember
    \/ UpdateAddMember
    \/ UpdateTagsGet
    \/ UpdateTagsPut
    \/ \E ar \in AuditRefs : resourceRoleDelete(ar)
    \/ \E n \in TldNames, ar \in AuditRefs, au \in SUBSET Members, y \in YpmIds :
            resourceTopLevelDomainCreate(n, ar, au, y)
    \/ resourceTopLevelDomainRead
    \/ TopLevelDomainReadAdmin
    \/ \E ar \in AuditRefs : resourceTopLevelDomainDelete(ar)
    \/ Return
    \/ \E r \in {NilRole} \cup RemoteRoles : OutOfBand(r)

Spec == Init /\ [][Next]_vars

\* ------------------------------------------------------------------ claims
Idx == 1..Len(calls)
RoleOp(o) == kind = "role" /\ op = o
IsMemberCall(c) == c.call \in {"DeleteMembership", "PutMembership"}
Removed == {calls[i].member : i \in {j \in Idx : calls[j].call = "DeleteMembership"}}
Added == {calls[i].member : i \in {j \in Idx : calls[j].call = "PutMembership"}}
Puts == {i \in Idx : calls[i].call = "PutRole"}
\* updateRoleMembers has returned nil: the callback is past it
PastMembers ==
    \/ pc \in {"update_tags_get", "update_tags_put", "read"}
    \/ \E i \in Idx : calls[i].site \in {"resourceRoleUpdate", "resourceRoleRead"}

\* C1: a Role Create whose precheck GetRole returned a role with no error ends
\* at once with the "already exists" error, has issued no call but the
\* precheck, and has not set the identifier.
C1_CreateRejectsExisting ==
    (RoleOp("Create") /\ calls[1].err = Nil /\ ~calls[1].role.nil) =>
        /\ pc = "done"
        /\ ret = Errorf("already exists", Nil)
        /\ Len(calls) = 1
        /\ id = NoString
C1_Witness ==
    /\ RoleOp("Create")
    /\ pc = "done"
    /\ calls[1].err = Nil
    /\ ~calls[1].role.nil
    /\ calls[1].existed

\* C2 as stated: a Role Create whose precheck failed with anything but a 404
\* returns that failure, issues no further call and leaves the identifier unset.
C2_Original ==
    (RoleOp("Create") /\ calls[1].err \notin {Nil, ResourceError(404)}) =>
        /\ pc = "done"
        /\ ret = calls[1].err
        /\ Len(calls) = 1
        /\ id = NoString

\* C3 as stated: a Role Create that returned nil with the identifier set to the
\* composite identifier found the role absent at the precheck and issued the
\* PutRole that created it.
C3_Original ==
    (/\ RoleOp("Create")
     /\ pc = "done"
     /\ ret = Nil
     /\ id = calls[1].dn \o ROLE_SEPARATOR \o calls[1].rn) =>
        /\ ~calls[1].existed
        /\ calls[1].err = ResourceError(404)
        /\ \E i \in Idx : calls[i].call = "PutRole" /\ calls[i].err = Nil

\* C4 as stated: in a Role Update every member remove/add call comes after a
\* GetRole issued by the same Update.
C4_Original ==
    RoleOp("Update") =>
        \A i \in Idx : IsMemberCall(calls[i]) =>
            \E j \in 1..(i - 1) : calls[j].call = "GetRole"
\* C4 amended: in a Role Update the members removed and added are those of the
\* difference between the prior state's member set and the planned one, and no
\* GetRole of the Update comes before a member call.
C4_DiffFromLocalState ==
    RoleOp("Update") =>
        \A i \in Idx : IsMemberCall(calls[i]) =>
            /\ \A j \in 1..(i - 1) : calls[j].call # "GetRole"
            /\ calls[i].call = "DeleteMembership" =>
                    calls[i].member \in state.members \ tmp.members
            /\ calls[i].call = "PutMembership" =>
                    calls[i].member \in tmp.members \ state.members
\* an Update converged the members, returned nil, and the remote member set is
\* not the desired one
C4_Witness ==
    /\ RoleOp("Update")
    /\ pc = "done"
    /\ ret = Nil
    /\ \E i \in Idx : IsMemberCall(calls[i])
    /\ Tracked(tmp.dn, tmp.rn)
    /\ ~remote.nil
    /\ flattenRoleMembers(remote.RoleMembers) # tmp.members

\* C5: when the fetch of Role Read (GetRole) or of Top-Level Domain Read
\* (GetDomain) fails with code 404 the Read clears the identifier and returns
\* nil; when it fails otherwise the Read returns an error and leaves the
\* identifier as it was; either way the callback is over and issues no call.
C5_ReadAbsorbsNotFound ==
    [][/\ (pc \in {"read", "tld_read"} /\ Len(calls') = Len(calls) + 1) =>
            LET c == calls'[Len(calls')] IN
            /\ c.err = ResourceError(404) =>
                    id' = NoString /\ ret' = Nil /\ pc' = "done"
            /\ c.err \notin {Nil, ResourceError(404)} =>
                    id' = id /\ ret' \notin {Nil, Running, Panic} /\ pc' = "done"
       /\ pc = "done" => calls' = <<>>]_vars
C5_Witness ==
    /\ RoleOp("Read")
    /\ pc = "done"
    /\ Len(calls) = 1
    /\ calls[1].err = ResourceError(404)
    /\ id = NoString
    /\ ret = Nil

\* C6: in a Role Update from member set O to N only members of O\N get a remove
\* call and only members of N\O an add call, each at most once, no remove call
\* follows an add call, the first add call comes when all of O\N have had their
\* remove call, and once updateRoleMembers has returned nil the removed members
\* are exactly O\N and the added ones exactly N\O.
C6_MemberCalls ==
    RoleOp("Update") =>
        LET O == state.members
            N == tmp.members
        IN
        /\ Removed \subseteq O \ N
        /\ Added \subseteq N \ O
        /\ \A i, j \in Idx :
            (i < j /\ IsMemberCall(calls[i]) /\ IsMemberCall(calls[j])) =>
                /\ calls[i].member # calls[j].member
                /\ ~(calls[i].call = "PutMembership" /\ calls[j].call = "DeleteMembership")
        /\ Added # {} => Removed = O \ N
        /\ PastMembers => (Removed = O \ N /\ Added = N \ O)
C6_Witness ==
    /\ RoleOp("Update")
    /\ pc = "done"
    /\ ret = Nil
    /\ Removed # {}
    /\ Added # {}

\* C7 as stated: a Role Update that follows a successful Role Update to the
\* same desired members and tags has issued no remote call when it returns.
C7_Original ==
    (RoleOp("Update") /\ tmp.second /\ pc = "done") => calls = <<>>
\* C7 amended: a Role Update that follows a successful Role Update to the same
\* desired members and tags, the first having left exactly those in the state,
\* has empty remove and add sets and issues no write; its one remote call is
\* the GetRole of the Read that ends it.
C7_SecondUpdateNoWrites ==
    (RoleOp("Update") /\ tmp.second) =>
        /\ tmp.remove = {}
        /\ tmp.add = {}
        /\ \A i \in Idx : calls[i].call = "GetRole" /\ calls[i].site = "resourceRoleRead"
        /\ Len(calls) <= 1
        /\ pc = "done" => Len(calls) = 1
C7_Witness ==
    /\ RoleOp("Update")
    /\ tmp.second
    /\ pc = "done"
    /\ ret = Nil
    /\ Len(calls) = 1

\* C8: a Role Update issues at most one PutRole; the PutRole comes right after
\* a successful GetRole of the same Update, only when the tags changed, and
\* carries the fetched role with its tag map replaced by the whole desired tag
\* map; an Update that changed the tags and got as far as its Read issued
\* exactly one; a failed re-fetch ends the Update with that failure and no
\* PutRole.
C8_TagReplacement ==
    RoleOp("Update") =>
        /\ Cardinality(Puts) <= 1
        /\ \A i \in Puts :
            /\ i > 1
            /\ state.tags # tmp.tags
            /\ calls[i - 1].site = "resourceRoleUpdate"
            /\ calls[i - 1].call = "GetRole"
            /\ calls[i - 1].err = Nil
            /\ calls[i].role.Tags = expandRoleTags(tmp.tags)
            /\ calls[i].role.RoleMembers = calls[i - 1].role.RoleMembers
        /\ \A i \in Idx :
            (calls[i].site = "resourceRoleUpdate" /\ calls[i].call = "GetRole"
             /\ calls[i].err # Nil) =>
                /\ i = Len(calls)
                /\ pc = "done"
                /\ ret = calls[i].err
                /\ Puts = {}
        /\ (/\ state.tags # tmp.tags
            /\ \/ pc = "read"
               \/ \E i \in Idx : calls[i].site = "resourceRoleRead") =>
                Cardinality(Puts) = 1
\* an Update wrote a tag map that differs from the one it fetched
C8_Witness ==
    /\ RoleOp("Update")
    /\ pc = "done"
    /\ ret = Nil
    /\ \E i \in Puts : calls[i].role.Tags # calls[i - 1].role.Tags

\* C9 as stated: Role Read, Update and Delete of an identifier that does not
\* split into exactly two components issue no remote call, do not crash, and
\* return a data-integrity error.
C9_Original ==
    (/\ kind = "role"
     /\ op \in {"Read", "Import", "Update", "Delete"}
     /\ id # NoString
     /\ Len(Split(id, ROLE_SEPARATOR)) # 2) =>
        /\ calls = <<>>
        /\ ret # Panic
        /\ pc = "done" => ret = Errorf("data integrity", Nil)

SepFree(s) == Index(s, ROLE_SEPARATOR) < 0
\* a call issued by resourceRoleRead, resourceRoleUpdate or resourceRoleDelete
ParsedSites ==
    {"resourceRoleRead", "resourceRoleUpdate", "updateRoleMembers", "resourceRoleDelete"}

C11_SetDiff ==
    (/\ RoleOp("Update")
     /\ Len(Split(id, ROLE_SEPARATOR)) >= 2
     /\ \A i \in Idx : ~IsMemberCall(calls[i])) =>
        LET O == state.members
            N == tmp.members
            remove == flattenRoleMembers(tmp.remove)
            add == flattenRoleMembers(tmp.add)
        IN
        /\ remove = O \ N
        /\ add = N \ O
        /\ remove \cap add = {}
        /\ (O \ remove) \cup add = N
\* an Update is about to converge members with both sets non-empty
C11_Witness ==
    /\ RoleOp("Update")
    /\ pc = "update_members"
    /\ calls = <<>>
    /\ tmp.remove # {}
    /\ tmp.add # {}

\* C12: a Role Create whose precheck failed with code 404 issues, as its second
\* call, its only PutRole, and that PutRole carries the desired members and the
\* desired tags; the identifier is set only once that PutRole has succeeded;
\* when the PutRole fails the Create ends there, returns that failure, has the
\* identifier unset and issues no read-back.
C12_CreateOnNotFound ==
    (RoleOp("Create") /\ calls[1].err = ResourceError(404)) =>
        /\ pc = "create_put" => (Len(calls) = 1 /\ id = NoString)
        /\ pc # "create_put" =>
            /\ Len(calls) >= 2
            /\ Puts = {2}
            /\ ~calls[2].role.nil
            /\ flattenRoleMembers(calls[2].role.RoleMembers) = tmp.members
            /\ flattenTag(calls[2].role.Tags) = tmp.tags
            /\ <<calls[2].dn, calls[2].rn>> = <<calls[1].dn, calls[1].rn>>
            /\ id # NoString => calls[2].err = Nil
            /\ calls[2].err # Nil =>
                /\ pc = "done"
                /\ ret = calls[2].err
                /\ id = NoString
                /\ Len(calls) = 2
\* a Create found the role absent, wrote members and tags, and read it back
C12_Witness ==
    /\ RoleOp("Create")
    /\ pc = "done"
    /\ ret = Nil
    /\ id # NoString
    /\ calls[1].err = ResourceError(404)
    /\ Len(calls) = 3
    /\ calls[2].role.RoleMembers # {}
    /\ calls[2].role.Tags # NoRemoteTags

TldOp(o) == kind = "domain" /\ op = o
\* the callback has entered resourceTopLevelDomainRead
TldReadEntered ==
    \/ pc \in {"tld_read", "tld_read_admin"}
    \/ \E i \in Idx : calls[i].site = "resourceTopLevelDomainRead"

\* C13: a Top-Level Domain Create goes on to its Read exactly when
\* PostTopLevelDomain returned a domain and no failure, and it enters the Read
\* with the identifier set to the domain name (only a 404 of that Read clears
\* it again); when the call failed, or returned neither a domain nor a failure,
\* the Create ends there with an error (the failure itself when there is one),
\* the identifier unset and no call of the Read.
C13_TldCreate ==
    TldOp("Create") =>
        LET c == calls[1]
            created == c.err = Nil /\ ~c.domain.nil
        IN
        /\ c.call = "PostTopLevelDomain"
        /\ TldReadEntered <=> created
        /\ created =>
            /\ id \in {c.dn, NoString}
            /\ pc = "tld_read" => id = c.dn
            /\ id = NoString =>
                    \E i \in Idx : calls[i].call = "GetDomain" /\ calls[i].err = ResourceError(404)
        /\ ~created =>
            /\ pc = "done"
            /\ Len(calls) = 1
            /\ id = NoString
            /\ ret \notin {Nil, Running, Panic}
            /\ c.err # Nil => ret = c.err
\* a Create got neither a domain nor a failure and returned an error
C13_Witness ==
    /\ TldOp("Create")
    /\ pc = "done"
    /\ calls[1].err = Nil
    /\ calls[1].domain.nil
    /\ ret = Errorf("error creating Top Level Domain", Nil)

\* resourceRoleRead has returned nil with the role it fetched
RoleReadSucceeded ==
    /\ kind = "role"
    /\ pc = "done"
    /\ ret = Nil
    /\ id # NoString
    /\ calls # <<>>
    /\ calls[Len(calls)].site = "resourceRoleRead"
Fetched == calls[Len(calls)].role

\* C14 as stated: after a successful Role Read (here the Read of a refresh,
\* which starts from the persisted state) the local tags attribute is the
\* flattened tag map of the role the Read fetched, also when that map is empty.
C14_Original ==
    (RoleReadSucceeded /\ op = "Read") => d.tags = flattenTag(Fetched.Tags)

\* the members attribute as the ResourceData held it when resourceRoleRead was
\* entered: the planned value in Create and Update, the persisted one otherwise
MembersBeforeRead == IF op \in {"Create", "Update"} THEN tmp.members ELSE state.members

\* C15: a successful Role Read that fetched a role with no members leaves the
\* local members attribute as it was when the Read was entered; one that
\* fetched a role with members sets the attribute to exactly their identities.
C15_ReadMembers ==
    RoleReadSucceeded =>
        IF Fetched.RoleMembers = {}
        THEN d.members = MembersBeforeRead
        ELSE d.members = flattenRoleMembers(Fetched.RoleMembers)
\* a refresh found the remote member set empty and kept the local members
C15_Witness ==
    /\ RoleReadSucceeded
    /\ op = "Read"
    /\ Fetched.RoleMembers = {}
    /\ d.members # {}
    /\ d.members = state.members

\* C16: in a Top-Level Domain Read, a GetDomain that returned a domain is
\* followed by one GetRole of that domain's "admin" role, the last call of the
\* Read; when that GetRole fails, with a 404 or otherwise, the Read returns
\* that failure and the identifier stays the domain name; when it returns a
\* role, admin_users is the set of that role's member identities.
C16_TldReadAdmin ==
    kind = "domain" =>
        \A i \in Idx :
            (calls[i].call = "GetDomain" /\ calls[i].err = Nil /\ ~calls[i].domain.nil) =>
                /\ i = Len(calls) => pc = "tld_read_admin"
                /\ i < Len(calls) =>
                    LET a == calls[i + 1] IN
                    /\ i + 1 = Len(calls)
                    /\ pc = "done"
                    /\ a.call = "GetRole"
                    /\ a.dn = calls[i].dn
                    /\ a.rn = Admin
                    /\ a.err # Nil =>
                        /\ ret = a.err
                        /\ id = calls[i].dn
                        /\ id # NoString
                    /\ (a.err = Nil /\ ~a.role.nil) =>
                            td.admin_users = flattenRoleMembers(a.role.RoleMembers)
\* a Read got the domain, then a 404 for its admin role
C16_Witness ==
    /\ kind = "domain"
    /\ pc = "done"
    /\ Len(calls) >= 2
    /\ calls[Len(calls)].call = "GetRole"
    /\ calls[Len(calls)].err = ResourceError(404)
    /\ ret = ResourceError(404)
    /\ id = Sports

\* C17: a Role Delete or Top-Level Domain Delete has issued exactly one remote
\* call when it returns, the delete call of its resource type, carrying the
\* audit reference held in its ResourceData; it returns the error of that call
\* as it is, a not-found included, so it returns nil only when the call
\* succeeded.
C17_Delete ==
    (op = "Delete" /\ pc = "done") =>
        /\ Len(calls) = 1
        /\ calls[1].call = (IF kind = "role" THEN "DeleteRole" ELSE "DeleteTopLevelDomain")
        /\ calls[1].audit = (IF kind = "role" THEN d.audit_ref ELSE td.audit_ref)
        /\ ret = calls[1].err
        /\ ret = Nil <=> calls[1].err = Nil
\* a Delete was answered with a 404 and returned it
C17_Witness ==
    /\ op = "Delete"
    /\ pc = "done"
    /\ Len(calls) = 1
    /\ calls[1].err = ResourceError(404)
    /\ ret = ResourceError(404)
    /\ calls[1].audit = "ticket-1"

\* calls of the tag branch of resourceRoleUpdate (its GetRole and its PutRole)
TagCalls == {i \in Idx : calls[i].site = "resourceRoleUpdate"}

\* C18: in a Role Update that changes members and tags, every member call comes
\* before the GetRole and the PutRole of the tag branch, and the tag branch is
\* entered only when all of O\N have been removed and all of N\O added without
\* a failure; a failed member call is the last call of the Update, which then
\* returns an error; and the PutRole carries the member set the remote role has
\* after the member calls, which holds every member added and none removed by
\* this Update.
C18_MembersBeforeTags ==
    (RoleOp("Update") /\ state.members # tmp.members /\ state.tags # tmp.tags) =>
        /\ \A i, j \in Idx :
            (IsMemberCall(calls[i]) /\ j \in TagCalls) => i < j
        /\ (TagCalls # {} \/ pc \in {"update_tags_get", "update_tags_put"}) =>
            /\ Removed = state.members \ tmp.members
            /\ Added = tmp.members \ state.members
            /\ \A i \in Idx : IsMemberCall(calls[i]) => calls[i].err = Nil
        /\ \A i \in Idx :
            (IsMemberCall(calls[i]) /\ calls[i].err # Nil) =>
                /\ i = Len(calls)
                /\ pc = "done"
                /\ ret = Errorf("error updating group membership", calls[i].err)
                /\ TagCalls = {}
        /\ \A i \in Puts :
            LET ms == flattenRoleMembers(calls[i].role.RoleMembers) IN
            /\ calls[i].role.RoleMembers = calls[i - 1].role.RoleMembers
            /\ Tracked(tmp.dn, tmp.rn) =>
                /\ remote.RoleMembers = calls[i].role.RoleMembers
                /\ Added \subseteq ms
                /\ Removed \cap ms = {}
\* an Update removed a member, added another, then wrote the tags
C18_Witness ==
    /\ RoleOp("Update")
    /\ pc = "done"
    /\ ret = Nil
    /\ Tracked(tmp.dn, tmp.rn)
    /\ Removed # {}
    /\ Added # {}
    /\ \E i \in Puts : calls[i].err = Nil /\ calls[i].role.RoleMembers # {}

\* C19 as stated: a Role Create that returned nil has the identifier set to the
\* role's composite identifier, or has it unset after a 404 of its read-back.
C19_Original ==
    (RoleOp("Create") /\ pc = "done" /\ ret = Nil) =>
        \/ id = calls[1].dn \o ROLE_SEPARATOR \o calls[1].rn
        \/ /\ id = NoString
           /\ calls[Len(calls)].site = "resourceRoleRead"
           /\ calls[Len(calls)].err = ResourceError(404)

====
